---- MODULE Spec2Model ----
(***************************************************************************)
(* Articulated joint-pose estimator of                                     *)
(* rfvision/models/pose_estimators/articulation/models/utils.py:           *)
(* ransac, joint_transformation_estimator, joint_transformation_verifier,  *)
(* scale_pts, rotate_pts, rotate_points_with_rotvec and the two objective  *)
(* functions.                                                              *)
(*                                                                         *)
(* Numbers.  Point coordinates and thresholds are integers counted in      *)
(* units of 1e-3 (a lattice of pitch 1e-3), so that the additive floor     *)
(* 1e-6 of scale_pts is exactly one squared lattice unit.  A scalar the    *)
(* code computes by division is the exact fraction <<num, den>>; den = 0   *)
(* is the NaN that a mean over an empty array yields.  Rotation vectors    *)
(* are counted in units of pi/2 and lie on a coordinate axis, where norm,  *)
(* sine and cosine are exact.  An ndarray is a record                      *)
(*   [base, tr, v, d]                                                      *)
(* v the matrix of numerators (a sequence of rows), d their common         *)
(* denominator, base the dataset field whose memory the array shares       *)
(* ("own" for freshly allocated memory) and tr whether it is the           *)
(* transposed view of that memory.                                         *)
(***************************************************************************)
EXTENDS Integers, Sequences, FiniteSets, TLC

VARIABLES dataset,      \* the caller's dataset dict
          dataset_in,   \* the values the dataset held when it was supplied
          pc,           \* position of the running call
          inlier_th, niter, joint_type,               \* arguments of ransac
          i,            \* loop iterations of ransac completed
          best_model, best_score, best_inliers,       \* locals of ransac
          cur_model, cur_score, cur_inliers,
          est_args,     \* best_inliers argument of every estimator call, in order
          n_ver,        \* verifier calls made by the running ransac
          top_score,    \* the greatest verifier score of the iterations so far
          arg, ret      \* inputs and result of the last call

vars == <<dataset, dataset_in, pc, inlier_th, niter, joint_type, i,
          best_model, best_score, best_inliers, cur_model, cur_score,
          cur_inliers, est_args, n_ver, top_score, arg, ret>>

----------------------------------------------------------------------------
(* Bounds of the model *)
MaxNiter == 2      \* niter ranges over 0..MaxNiter
MaxTh == 1         \* inlier_th ranges over 0..MaxTh lattice units

(* Program constants *)
SampleSize == 3    \* size=3 of np.random.randint
EpsLattice == 1    \* the 1e-6 of scale_pts, in squared lattice units
NParams == 6       \* np.hstack((rotvec0, rotvec1)): unknowns of the solver

None == <<>>
Some(x) == <<x>>
NegInf == <<-1, 0>>      \* -np.inf

----------------------------------------------------------------------------
(* Integer and vector arithmetic *)
Abs(x) == IF x < 0 THEN -x ELSE x

RECURSIVE GCD(_, _)
GCD(a, b) == IF b = 0 THEN Abs(a) ELSE GCD(b, a % b)

LCM(a, b) == IF a = 0 \/ b = 0 THEN 0 ELSE (Abs(a) * Abs(b)) \div GCD(a, b)

\* np.sqrt on the squared lengths the lattice data produce (perfect squares)
Sqrt(n) == Cardinality({r \in 1..n : r * r <= n})

RECURSIVE SumSeq(_)
SumSeq(s) == IF s = <<>> THEN 0 ELSE Head(s) + SumSeq(Tail(s))

\* a sequence given by its entries, held as a tuple
Tuple(f) == f \o <<>>

\* a function given by its values, held as a table
Table(f) == f @@ <<>>

Dot(a, b) == a[1] * b[1] + a[2] * b[2] + a[3] * b[3]
VAdd(a, b) == <<a[1] + b[1], a[2] + b[2], a[3] + b[3]>>
VSub(a, b) == <<a[1] - b[1], a[2] - b[2], a[3] - b[3]>>
VScale(c, a) == <<c * a[1], c * a[2], c * a[3]>>
Cross(a, b) == <<a[2] * b[3] - a[3] * b[2],
                 a[3] * b[1] - a[1] * b[3],
                 a[1] * b[2] - a[2] * b[1]>>

\* np.dot of two vectors of any length
DotSeq(a, b) == SumSeq(Tuple([k \in 1..Len(a) |-> a[k] * b[k]]))

RECURSIVE SumVec(_)
SumVec(s) == IF s = <<>> THEN <<0, 0, 0>> ELSE VAdd(Head(s), SumVec(Tail(s)))

Transpose(M) == Tuple([c \in 1..Len(M[1]) |-> Tuple([r \in 1..Len(M) |-> M[r][c]])])
MatVec(M, x) == <<Dot(M[1], x), Dot(M[2], x), Dot(M[3], x)>>
MatMul(A, B) == Tuple([r \in 1..Len(A) |-> Tuple([c \in 1..Len(B[1]) |->
                    SumSeq(Tuple([k \in 1..Len(B) |-> A[r][k] * B[k][c]]))])])
Det3(M) == Dot(M[1], Cross(M[2], M[3]))
Identity3 == <<<<1, 0, 0>>, <<0, 1, 0>>, <<0, 0, 1>>>>

----------------------------------------------------------------------------
(* ndarrays: allocation, views and the memory they share with the dataset *)
Own(v, d) == [base |-> "own", tr |-> FALSE, v |-> v, d |-> d]

\* dataset['f']: the caller's array itself
Field(ds, f) == [base |-> f, tr |-> FALSE, v |-> ds[f], d |-> 1]

\* a.T: a view of the same memory
TView(a) == [base |-> a.base, tr |-> ~a.tr, v |-> Transpose(a.v), d |-> a.d]

\* a[idx, :] with an index array or a boolean mask: a copy of the chosen rows
Take(a, idx) == Own(Tuple([k \in 1..Len(idx) |-> a.v[idx[k] + 1]]), a.d)

\* The dataset after a call that bound the given arrays, in program order:
\* an array that shares memory with a dataset field leaves its contents there.
RECURSIVE Commit(_, _)
Commit(ds, arrays) ==
    IF arrays = <<>> THEN ds
    ELSE LET a == Head(arrays)
             next == IF a.base = "own" THEN ds
                     ELSE [ds EXCEPT ![a.base] =
                              IF a.tr THEN Transpose(a.v) ELSE a.v]
         IN Commit(next, Tail(arrays))

----------------------------------------------------------------------------
(* joint_transformation_verifier *)

\* the residual computed with target.T -= ..., into the memory of the target
ResidualInPlace(tT, sT, scale, rotation, translation) ==
    LET L == LCM(scale[2], translation[2])
        ks == IF L = 0 THEN 0 ELSE scale[1] * (L \div scale[2])
        kt == IF L = 0 THEN 0 ELSE L \div translation[2]
        RS == MatMul(rotation, sT.v)
    IN [base |-> tT.base, tr |-> tT.tr, d |-> L,
        v |-> Tuple([r \in 1..Len(tT.v) |-> Tuple([j \in 1..Len(tT.v[r]) |->
               L * tT.v[r][j] - ks * RS[r][j] - kt * translation[1][r]])])]

\* target.T - scale * np.matmul(rotation, source.T) - translation.reshape((3, 1)):
\* the binary minus allocates the 3 x N result
Residual(tT, sT, scale, rotation, translation) ==
    LET L == LCM(scale[2], translation[2])
        ks == IF L = 0 THEN 0 ELSE scale[1] * (L \div scale[2])
        kt == IF L = 0 THEN 0 ELSE L \div translation[2]
        RS == MatMul(rotation, sT.v)
    IN Own(Tuple([r \in 1..Len(tT.v) |-> Tuple([j \in 1..Len(tT.v[r]) |->
               L * tT.v[r][j] - ks * RS[r][j] - kt * translation[1][r]])]), L)

\* np.sum(res**2, 0): squared length of every column, times res.d^2
ColumnSumSq(res) == Tuple([j \in 1..Len(res.v[1]) |->
                        SumSeq(Tuple([r \in 1..Len(res.v) |-> res.v[r][j] * res.v[r][j]]))])

\* np.sqrt(np.sum(res**2, 0)) < inlier_th  (a NaN compares false)
InlierMask(res, th) ==
    LET ss == ColumnSumSq(res)
    IN Tuple([j \in 1..Len(ss) |->
                 res.d # 0 /\ th > 0 /\ ss[j] < th * th * res.d * res.d])

\* np.sum of a boolean mask
CountTrue(mask) == Cardinality({j \in 1..Len(mask) : mask[j]})

\* ( np.sum(inliers0)/res0.shape[0] + np.sum(inliers1)/res1.shape[0] ) / 2
\* res.shape[0] is the number of rows of the 3 x N residual array
Score(inliers0, res0, inliers1, res1) ==
    <<CountTrue(inliers0) * Len(res1.v) + CountTrue(inliers1) * Len(res0.v),
      2 * Len(res0.v) * Len(res1.v)>>

joint_transformation_verifier(ds, model, th) ==
    LET t0 == TView(Field(ds, "target0"))
        s0 == TView(Field(ds, "source0"))
        res0 == Residual(t0, s0, model.scale0, model.rotation0, model.translation0)
        inliers0 == InlierMask(res0, th)
        t1 == TView(Field(ds, "target1"))
        s1 == TView(Field(ds, "source1"))
        res1 == Residual(t1, s1, model.scale1, model.rotation1, model.translation1)
        inliers1 == InlierMask(res1, th)
    IN [score |-> Score(inliers0, res0, inliers1, res1),
        inliers |-> <<inliers0, inliers1>>,
        arrays |-> <<t0, s0, res0, t1, s1, res1>>]

\* cur_score > best_score on floats and -inf
ScoreGreater(a, b) ==
    IF a = NegInf THEN FALSE
    ELSE IF b = NegInf THEN TRUE
    ELSE a[1] * b[2] > b[1] * a[2]

----------------------------------------------------------------------------
(* Datasets, in lattice units: right triangles and rectangles with sides   *)
(* 3 and 4, whose pairwise distances are whole numbers.                    *)
Tri == <<<<0, 0, 0>>, <<3, 0, 0>>, <<0, 4, 0>>>>
Rect == <<<<0, 0, 0>>, <<3, 0, 0>>, <<0, 4, 0>>, <<3, 4, 0>>>>
Rz90 == <<<<0, -1, 0>>, <<1, 0, 0>>, <<0, 0, 1>>>>

MkDataset(s0, t0, s1, t1) ==
    [source0 |-> s0, target0 |-> t0, nsource0 |-> Len(s0),
     source1 |-> s1, target1 |-> t1, nsource1 |-> Len(s1),
     joint_direction |-> <<<<0, 0, 1>>>>]

\* body 0 turned a quarter about z
TriTurned == Tuple([k \in 1..3 |-> MatVec(Rz90, Tri[k])])
\* body 1 turned a quarter about z, doubled and shifted
TriMoved == Tuple([k \in 1..3 |-> VAdd(VScale(2, MatVec(Rz90, Tri[k])), <<1, 0, 0>>)])
\* the last correspondence mismatched
TriOutlier == <<<<0, 0, 0>>, <<3, 0, 0>>, <<3, 4, 0>>>>
RectOutlier == <<<<0, 0, 0>>, <<3, 0, 0>>, <<0, 4, 0>>, <<0, -4, 0>>>>

Datasets == { MkDataset(Tri, TriTurned, Tri, TriMoved),
              MkDataset(Tri, TriOutlier, Tri, Tri) }

\* further shapes for direct calls of the verifier: N0, N1 from 1 to 4
VerifierDatasets ==
    Datasets \cup
    { MkDataset(Rect, Rect, Tri, Tri),
      MkDataset(Rect, RectOutlier, Tri, Tri),
      MkDataset(<<<<3, 0, 0>>>>, <<<<3, 0, 0>>>>, <<<<0, 4, 0>>>>, <<<<0, 4, 0>>>>),
      MkDataset(Tri, Tri, <<<<3, 0, 0>>, <<0, 4, 0>>>>, <<<<3, 0, 0>>, <<0, 0, 0>>>>) }

\* models handed to the verifier directly
IntScales == {<<0, 1>>, <<1, 1>>, <<2, 1>>}
IntRotations == {Identity3, Rz90}
IntTranslations == {<<<<0, 0, 0>>, 1>>, <<<<1, 0, 0>>, 1>>}
MkModel(R0, s0, t0, R1, s1, t1) ==
    [rotation0 |-> R0, scale0 |-> s0, translation0 |-> t0,
     rotation1 |-> R1, scale1 |-> s1, translation1 |-> t1]
IntModels == { MkModel(R0, s0, t0, R1, s1, t1) :
                 R0 \in IntRotations, s0 \in IntScales, t0 \in IntTranslations,
                 R1 \in IntRotations, s1 \in IntScales, t1 \in IntTranslations }

----------------------------------------------------------------------------
(* scale_pts *)

\* np.sqrt(np.sum(pdist**2, 2)).reshape(-1): the n*n pairwise distances
PairDistances(pts) ==
    LET n == Len(pts)
    IN Tuple([k \in 1..(n * n) |->
          LET p == pts[((k - 1) \div n) + 1]
              q == pts[((k - 1) % n) + 1]
          IN Sqrt(Dot(VSub(p, q), VSub(p, q)))])

\* np.dot(A, b) / (np.dot(A, A) + 1e-6), as the fraction <<num, den>>
scale_pts(source, target) ==
    LET A == PairDistances(source.v)
        b == PairDistances(target.v)
    IN <<DotSeq(A, b), DotSeq(A, A) + EpsLattice>>

----------------------------------------------------------------------------
(* rotate_points_with_rotvec and the objective functions *)

\* np.linalg.norm of a rotation vector on a coordinate axis, in quarter turns
Norm(rv) == Abs(rv[1]) + Abs(rv[2]) + Abs(rv[3])

\* cosine and sine of theta quarter turns
Cos(theta) == <<1, 0, -1, 0>>[(theta % 4) + 1]
Sin(theta) == <<0, 1, 0, -1>>[(theta % 4) + 1]

\* rot_vecs / theta under errstate(invalid='ignore'): the fraction; 0/0 is NaN
DivideByNorm(rv, theta) == <<rv, theta>>

\* the axis used as divided, without np.nan_to_num
KeepNaN(q) == q

\* np.nan_to_num: a NaN becomes 0
nan_to_num(q) == IF q[2] = 0 /\ q[1] = <<0, 0, 0>> THEN <<<<0, 0, 0>>, 1>> ELSE q

\* cos_theta * points + sin_theta * np.cross(v, points) + dot * (1 - cos_theta) * v
\* for points P/d and v = q[1]/q[2]: numerators over q[2]^2 * d
rotate_points_with_rotvec(points, rot_vecs) ==
    LET theta == Norm(rot_vecs)
        q == nan_to_num(DivideByNorm(rot_vecs, theta))
        vn == q[1]
        vd == q[2]
        cos_theta == Cos(theta)
        sin_theta == Sin(theta)
    IN Own(Tuple([k \in 1..Len(points.v) |->
              LET P == points.v[k]
                  dot == Dot(P, vn)
              IN VAdd(VAdd(VScale(cos_theta * vd * vd, P),
                           VScale(sin_theta * vd, Cross(vn, P))),
                      VScale(dot * (1 - cos_theta), vn))]),
           vd * vd * points.d)

\* a - b on arrays of equal shape (a new array)
Minus(a, b) ==
    Own(Tuple([k \in 1..Len(a.v) |-> VSub(VScale(b.d, a.v[k]), VScale(a.d, b.v[k]))]),
        a.d * b.d)

\* np.concatenate(blocks, 0).ravel(): the residual entries, block by block
Ravel(blocks) ==
    LET rows(a) == Tuple([k \in 1..Len(a.v) |-> <<a.v[k], a.d>>])
    IN rows(blocks[1]) \o rows(blocks[2]) \o rows(blocks[3])

\* number of entries of the raveled residual vector
RavelSize(r) == 3 * Len(r)

objective_eval(params, x0, y0, x1, y1, joints) ==
    LET rotvec0 == params[1]
        rotvec1 == params[2]
        res0 == Minus(y0, rotate_points_with_rotvec(x0, rotvec0))
        res1 == Minus(y1, rotate_points_with_rotvec(x1, rotvec1))
        res_joint == Minus(rotate_points_with_rotvec(joints, rotvec0),
                           rotate_points_with_rotvec(joints, rotvec1))
    IN Ravel(<<res0, res1, res_joint>>)

objective_eval_r(params, x0, y0, x1, y1, joints) ==
    LET rotvec0 == params[1]
        rotvec1 == params[2]
        res0 == Minus(y0, rotate_points_with_rotvec(x0, rotvec0))
        res1 == Minus(y1, rotate_points_with_rotvec(x1, rotvec1))
        res_R == Own(<<VSub(rotvec0, rotvec1)>>, 1)
    IN Ravel(<<res0, res1, res_R>>)

----------------------------------------------------------------------------
(* rotate_pts *)

\* a - np.mean(a, 0, keepdims=True): rows n*p - sum over n times the denominator
MeanRemoved(a) ==
    LET n == Len(a.v)
    IN IF n = 0 THEN [v |-> <<>>, d |-> a.d]
       ELSE [v |-> Tuple([k \in 1..n |-> VSub(VScale(n, a.v[k]), SumVec(a.v))]),
             d |-> n * a.d]

\* source - np.mean(source, 0, keepdims=True): a new array
Centered(a) == Own(MeanRemoved(a).v, MeanRemoved(a).d)

\* a -= np.mean(a, 0, keepdims=True): the array itself is overwritten
CenterInPlace(a) == [a EXCEPT !.v = MeanRemoved(a).v, !.d = MeanRemoved(a).d]

\* orthogonal matrices with entries 0, 1, -1
Perms3 == {<<1, 2, 3>>, <<1, 3, 2>>, <<2, 1, 3>>, <<2, 3, 1>>, <<3, 1, 2>>, <<3, 2, 1>>}
SignedPerms ==
    { Tuple([r \in 1..3 |-> Tuple([c \in 1..3 |-> IF c = pm[r] THEN sg[r] ELSE 0])]) :
        pm \in Perms3, sg \in [1..3 -> {-1, 1}] }

IsDiagonal(X) == \A r \in 1..3 : \A c \in 1..3 : r # c => X[r][c] = 0

\* np.linalg.svd(M, full_matrices=True): any <<U, D, Vh>> with M = U diag(D) Vh,
\* U and Vh orthogonal, D non-negative and in descending order.  LAPACK fixes
\* neither the signs of the singular vectors nor the vectors of a zero or
\* repeated singular value, so every such factorisation is a possible result.
SVDs(M) ==
    { f \in { <<U, MatMul(MatMul(Transpose(U), M), Transpose(Vh)), Vh>> :
                U \in SignedPerms, Vh \in SignedPerms } :
        /\ IsDiagonal(f[2])
        /\ f[2][3][3] >= 0
        /\ f[2][1][1] >= f[2][2][2]
        /\ f[2][2][2] >= f[2][3][3] }

\* U left as the SVD returned it
KeepLastColumn(U, d) == U

\* if d: U[:, -1] = -U[:, -1]
FlipLastColumn(U, d) ==
    IF d THEN Tuple([r \in 1..3 |-> <<U[r][1], U[r][2], -U[r][3]>>])
    ELSE U

\* M = np.matmul(target.T, source) of the centred arrays (numerators)
CrossCovariance(source, target) ==
    MatMul(Transpose(Centered(target).v), Centered(source).v)

rotate_pts(source, target, svd) ==
    LET U == svd[1]
        Vh == svd[3]
        d == (Det3(U) * Det3(Vh)) < 0
    IN MatMul(FlipLastColumn(U, d), Vh)

----------------------------------------------------------------------------
(* joint_transformation_estimator *)

\* np.random.randint(nsource, size=3): three indices in 0..nsource-1, drawn
\* independently.  Everything the estimator computes from the sample is a sum
\* over its rows, so the draws are listed up to their order.
Draws(nsource) ==
    { s \in [1..SampleSize -> 0..(nsource - 1)] : s[1] <= s[2] /\ s[2] <= s[3] }

\* the draw happens only when no inlier set is given (line 91)
DrawsIfNone(nsource, inliers) ==
    IF inliers = None THEN Draws(nsource) ELSE {Tuple([k \in 1..SampleSize |-> 0])}

\* rows selected by a boolean mask, in order
MaskIndices(mask) ==
    SelectSeq(Tuple([k \in 1..Len(mask) |-> k - 1]), LAMBDA x : mask[x + 1])

\* scale_inv * target: a new array
ScalarTimes(scale, a) == Own(Tuple([k \in 1..Len(a.v) |-> VScale(scale[1], a.v[k])]),
                            scale[2] * a.d)

Min(a, b) == IF a < b THEN a ELSE b

\* np.ones_like(np.linspace(0, 1, num=K+1)[1:].reshape((-1, 1))) * joint_direction.reshape((1, 3))
JointPoints(K, joint_direction) ==
    Own(Tuple([k \in 1..K |-> joint_direction.v[1]]), 1)

\* parameter vectors the solver can return: both bodies turned alike about the
\* joint axis, by nothing or by a quarter turn
RotVecs == {<<0, 0, 0>>, <<0, 0, 1>>}
Solutions == { <<r, r>> : r \in RotVecs }

\* scipy least_squares(fun, x0, method='lm'): rejects a residual vector that is
\* not finite or has fewer entries than unknowns; otherwise returns a parameter
\* vector, which the caller accepts whatever the solver's status.  f0 = fun(x0).
least_squares(f0, sol) ==
    IF \E k \in 1..Len(f0) : f0[k][2] = 0 THEN [err |-> "ValueError", x |-> sol]
    ELSE IF RavelSize(f0) < NParams THEN [err |-> "ValueError", x |-> sol]
    ELSE [err |-> "", x |-> sol]

\* the branch with a plain else: any other joint type refined like a revolute one
ObjectiveFallback(jt, params, x0, y0, x1, y1, joints) ==
    IF jt = "prismatic" THEN Some(objective_eval_r(params, x0, y0, x1, y1, joints))
    ELSE Some(objective_eval(params, x0, y0, x1, y1, joints))

\* the branch on joint_type (lines 136-141): which objective is minimised
Objective(jt, params, x0, y0, x1, y1, joints) ==
    IF jt = "prismatic" THEN Some(objective_eval_r(params, x0, y0, x1, y1, joints))
    ELSE IF jt = "revolute" THEN Some(objective_eval(params, x0, y0, x1, y1, joints))
    ELSE None

\* srot.from_rotvec(rv).as_dcm(): columns are the rotated basis vectors
as_dcm(rv) ==
    LET rot == rotate_points_with_rotvec(Own(Identity3, 1), rv)
    IN Transpose(Tuple([k \in 1..3 |-> Tuple([c \in 1..3 |-> rot.v[k][c] \div rot.d])]))

\* np.mean(target.T - scale * np.matmul(R, source.T), 1); NaN for no rows
Translation(target, source, scale, R) ==
    <<SumVec(Tuple([k \in 1..Len(target.v) |->
                VSub(VScale(scale[2], target.v[k]),
                     VScale(scale[1], MatVec(R, source.v[k])))])),
      scale[2] * Len(target.v)>>

\* lines 136-141: the solver runs on the objective the joint type selects; for
\* any other joint type res is never bound and line 142 fails
Solve(f0, sol) ==
    IF f0 = None THEN [err |-> "UnboundLocalError", x |-> sol]
    ELSE least_squares(f0[1], sol)

\* lines 142-176: the rotations of the solver's answer, the translations and
\* the dict that is returned, unless an exception has ended the call
jtrans(res, source0, target0, scale0, source1, target1, scale1, sample, arrays) ==
    IF res.err # ""
    THEN [err |-> res.err, model |-> None, sample |-> sample, arrays |-> arrays]
    ELSE [err |-> "", sample |-> sample, arrays |-> arrays,
          model |-> Some(
             [rotation0 |-> as_dcm(res.x[1]), scale0 |-> scale0,
              translation0 |-> Translation(target0, source0, scale0, as_dcm(res.x[1])),
              rotation1 |-> as_dcm(res.x[2]), scale1 |-> scale1,
              translation1 |-> Translation(target1, source1, scale1, as_dcm(res.x[2]))])]

\* best_inliers is None or <<mask0, mask1>>; draw0, draw1 are the random
\* indices and sol the solver's answer.  R0, R1 of rotate_pts (lines 124-125)
\* only seed the solver, whose answer replaces them (lines 142-143).
joint_transformation_estimator(ds, inliers, jt, draw0, draw1, sol) ==
    LET sample_idx0 == IF inliers = None THEN draw0 ELSE MaskIndices(inliers[1])
        sample_idx1 == IF inliers = None THEN draw1 ELSE MaskIndices(inliers[2])
        source0 == Take(Field(ds, "source0"), sample_idx0)
        target0 == Take(Field(ds, "target0"), sample_idx0)
        source1 == Take(Field(ds, "source1"), sample_idx1)
        target1 == Take(Field(ds, "target1"), sample_idx1)
        scale0 == scale_pts(source0, target0)
        scale1 == scale_pts(source1, target1)
        scale0_inv == scale_pts(target0, source0)
        scale1_inv == scale_pts(target1, source1)
        target0_scaled_centered == CenterInPlace(ScalarTimes(scale0_inv, target0))
        source0_centered == Centered(source0)
        target1_scaled_centered == CenterInPlace(ScalarTimes(scale1_inv, target1))
        source1_centered == Centered(source1)
        joint_points0 == JointPoints(Min(Len(source0.v), Len(source1.v)),
                                     Field(ds, "joint_direction"))
        f0 == Objective(jt, <<<<0, 0, 0>>, <<0, 0, 0>>>>,
                        source0_centered, target0_scaled_centered,
                        source1_centered, target1_scaled_centered, joint_points0)
    IN jtrans(Solve(f0, sol), source0, target0, scale0, source1, target1, scale1,
              <<sample_idx0, sample_idx1>>,
              <<source0, target0, source1, target1,
                target0_scaled_centered, source0_centered,
                target1_scaled_centered, source1_centered, joint_points0>>)

\* the inlier sets a caller can hand to the estimator: None or a pair of masks
Masks(n) == { Tuple(m) : m \in [1..n -> BOOLEAN] }
InlierSets(ds) == {None} \cup (Masks(ds.nsource0) \X Masks(ds.nsource1))

JointTypes == {"revolute", "prismatic", "fixed"}

\* Every way one call of the estimator can end, over the random draws and the
\* solver's answers: the exception or the model, the sample that was fitted and
\* the dataset the call leaves behind.
EstimatorOutcomes(ds, inliers, jt) ==
    { LET e == joint_transformation_estimator(ds, inliers, jt, draw0, draw1, sol)
      IN [err |-> e.err, model |-> e.model, sample |-> e.sample,
          dataset |-> Commit(ds, e.arrays)] :
        draw0 \in DrawsIfNone(ds.nsource0, inliers),
        draw1 \in DrawsIfNone(ds.nsource1, inliers),
        sol \in Solutions }

\* the outcomes on the supplied datasets, tabulated once
EstimatorTable ==
    Table([ds \in Datasets |-> Table([jt \in JointTypes |->
        Table([inliers \in InlierSets(ds) |-> EstimatorOutcomes(ds, inliers, jt)])])])

Estimator(ds, inliers, jt) ==
    IF ds \in Datasets /\ jt \in JointTypes /\ inliers \in InlierSets(ds)
    THEN EstimatorTable[ds][jt][inliers]
    ELSE EstimatorOutcomes(ds, inliers, jt)

----------------------------------------------------------------------------
(* ransac *)

\* for i in range(niter - 1)
LoopStopsEarly(k, n) == k < n - 1

\* for i in range(niter)
LoopContinues(k, n) == k < n

\* model_estimator(dataset, best_inliers, joint_type=joint_type) inside the loop
LoopInliersRefit(inliers) == inliers

\* line 79: model_estimator(dataset, joint_type=joint_type), best_inliers defaulted
LoopInliers(inliers) == None

\* line 84: model_estimator(dataset, best_inliers, joint_type=joint_type)
RefitInliers(inliers) == inliers

\* lines 81-83: the body of "if cur_score > best_score" assigns best_model and
\* best_inliers; best_score is assigned nowhere after line 76
BestScoreAfter(best, cur, replace) == best

\* the mask of the refit model, from one more verifier call before the return
ReverifiedInliers(ds, model, inliers, th) ==
    joint_transformation_verifier(ds, model, th).inliers

\* line 85: return best_model, best_inliers -- the mask as the loop left it
ReturnedInliers(ds, model, inliers, th) == inliers

\* lines 79-80: the estimator call and the verifier call of one iteration
LoopBodyOutcomes(ds, inliers, jt, th) ==
    { IF e.err # ""
      THEN [err |-> e.err, model |-> None, score |-> NegInf, inliers |-> None,
            dataset |-> e.dataset]
      ELSE LET v == joint_transformation_verifier(e.dataset, e.model[1], th)
           IN [err |-> "", model |-> e.model, score |-> v.score,
               inliers |-> v.inliers, dataset |-> Commit(e.dataset, v.arrays)] :
        e \in Estimator(ds, inliers, jt) }

LoopBodyTable ==
    Table([ds \in Datasets |-> Table([jt \in JointTypes |->
        Table([th \in 0..MaxTh |-> LoopBodyOutcomes(ds, None, jt, th)])])])

LoopBody(ds, inliers, jt, th) ==
    IF ds \in Datasets /\ jt \in JointTypes /\ th \in 0..MaxTh /\ inliers = None
    THEN LoopBodyTable[ds][jt][th]
    ELSE LoopBodyOutcomes(ds, inliers, jt, th)

Init ==
    /\ dataset \in Datasets
    /\ dataset_in = dataset
    /\ pc = "idle"
    /\ inlier_th = 0 /\ niter = 0 /\ joint_type = "revolute" /\ i = 0
    /\ best_model = None /\ best_score = NegInf /\ best_inliers = None
    /\ cur_model = None /\ cur_score = NegInf /\ cur_inliers = None
    /\ est_args = <<>> /\ n_ver = 0 /\ top_score = NegInf
    /\ arg = None /\ ret = None

\* ransac(dataset, estimator, verifier, inlier_th, niter, joint_type): lines 75-77
RansacCall ==
    /\ pc = "idle"
    /\ \E th \in 0..MaxTh, n \in 0..MaxNiter, jt \in JointTypes :
         /\ inlier_th' = th /\ niter' = n /\ joint_type' = jt
         /\ arg' = <<th, n, jt>>
    /\ pc' = "loop"
    /\ i' = 0
    /\ best_model' = None /\ best_score' = NegInf /\ best_inliers' = None
    /\ cur_model' = None /\ cur_score' = NegInf /\ cur_inliers' = None
    /\ est_args' = <<>> /\ n_ver' = 0 /\ top_score' = NegInf
    /\ ret' = None
    /\ UNCHANGED <<dataset, dataset_in>>

\* one pass of the loop body, lines 79-83; an exception of the estimator
\* leaves ransac
RansacIter ==
    /\ pc = "loop"
    /\ LoopContinues(i, niter)
    /\ \E o \in LoopBody(dataset, LoopInliers(best_inliers), joint_type, inlier_th) :
         /\ dataset' = o.dataset
         /\ est_args' = Append(est_args, LoopInliers(best_inliers))
         /\ IF o.err # ""
            THEN /\ pc' = "raised"
                 /\ ret' = o.err
                 /\ UNCHANGED <<i, best_model, best_score, best_inliers,
                                cur_model, cur_score, cur_inliers, n_ver, top_score>>
            ELSE LET replace == ScoreGreater(o.score, best_score)
                 IN /\ cur_model' = o.model
                    /\ cur_score' = o.score
                    /\ cur_inliers' = o.inliers
                    /\ n_ver' = n_ver + 1
                    /\ best_model' = IF replace THEN o.model ELSE best_model
                    /\ best_inliers' = IF replace THEN o.inliers ELSE best_inliers
                    /\ best_score' = BestScoreAfter(best_score, o.score, replace)
                    /\ top_score' = IF ScoreGreater(o.score, top_score)
                                    THEN o.score ELSE top_score
                    /\ i' = i + 1
                    /\ UNCHANGED <<pc, ret>>
    /\ UNCHANGED <<dataset_in, inlier_th, niter, joint_type, arg>>

\* lines 84-85: the call after the loop and the return
RansacRefit ==
    /\ pc = "loop"
    /\ ~LoopContinues(i, niter)
    /\ \E e \in Estimator(dataset, RefitInliers(best_inliers), joint_type) :
         /\ dataset' = e.dataset
         /\ est_args' = Append(est_args, RefitInliers(best_inliers))
         /\ IF e.err # ""
            THEN /\ pc' = "raised"
                 /\ ret' = e.err
                 /\ UNCHANGED best_model
            ELSE /\ pc' = "done"
                 /\ best_model' = e.model
                 /\ ret' = <<e.model[1], ReturnedInliers(e.dataset, e.model[1],
                                                        best_inliers, inlier_th)>>
    /\ UNCHANGED <<dataset_in, inlier_th, niter, joint_type, i, best_score,
                   best_inliers, cur_model, cur_score, cur_inliers, n_ver,
                   top_score, arg>>

\* a caller's own call of joint_transformation_estimator
EstimatorCall ==
    /\ pc = "idle"
    /\ \E inliers \in InlierSets(dataset), jt \in JointTypes :
         \E e \in Estimator(dataset, inliers, jt) :
            /\ arg' = <<inliers, jt, e.sample>>
            /\ dataset' = e.dataset
            /\ IF e.err # "" THEN pc' = "est_raised" /\ ret' = e.err
                             ELSE pc' = "estimated" /\ ret' = e.model[1]
    /\ UNCHANGED <<dataset_in, inlier_th, niter, joint_type, i, best_model,
                   best_score, best_inliers, cur_model, cur_score, cur_inliers,
                   est_args, n_ver, top_score>>

\* a caller's own call of joint_transformation_verifier
VerifierCall ==
    /\ pc = "idle"
    /\ \E model \in IntModels, th \in 0..MaxTh :
         LET v == joint_transformation_verifier(dataset, model, th)
         IN /\ arg' = <<model, th>>
            /\ ret' = <<v.score, v.inliers>>
            /\ dataset' = Commit(dataset, v.arrays)
    /\ pc' = "verified"
    /\ UNCHANGED <<dataset_in, inlier_th, niter, joint_type, i, best_model,
                   best_score, best_inliers, cur_model, cur_score, cur_inliers,
                   est_args, n_ver, top_score>>

\* the call is over; the caller goes on with the same dataset
Return ==
    /\ pc \in {"done", "raised", "estimated", "est_raised", "verified",
               "rotated", "turned"}
    /\ pc' = "idle"
    /\ inlier_th' = 0 /\ niter' = 0 /\ joint_type' = "revolute" /\ i' = 0
    /\ best_model' = None /\ best_score' = NegInf /\ best_inliers' = None
    /\ cur_model' = None /\ cur_score' = NegInf /\ cur_inliers' = None
    /\ est_args' = <<>> /\ n_ver' = 0 /\ top_score' = NegInf
    /\ arg' = None /\ ret' = None
    /\ UNCHANGED <<dataset, dataset_in>>

Next == RansacCall \/ RansacIter \/ RansacRefit \/ EstimatorCall
          \/ VerifierCall \/ Return

Spec == Init /\ [][Next]_vars

----------------------------------------------------------------------------
(* The verifier on datasets of every shape *)
InitVerifier ==
    /\ dataset \in VerifierDatasets
    /\ dataset_in = dataset
    /\ pc = "idle"
    /\ inlier_th = 0 /\ niter = 0 /\ joint_type = "revolute" /\ i = 0
    /\ best_model = None /\ best_score = NegInf /\ best_inliers = None
    /\ cur_model = None /\ cur_score = NegInf /\ cur_inliers = None
    /\ est_args = <<>> /\ n_ver = 0 /\ top_score = NegInf
    /\ arg = None /\ ret = None

NextVerifier == VerifierCall \/ Return

SpecVerifier == InitVerifier /\ [][NextVerifier]_vars

----------------------------------------------------------------------------
(* rotate_pts and rotate_points_with_rotvec called on their own *)

\* point sets whose covariance is diagonal: an isosceles triangle, the
\* rectangle (both planar) and a tetrahedron
Iso == <<<<-3, 0, 0>>, <<3, 0, 0>>, <<0, 4, 0>>>>
Tetra == <<<<1, 2, 3>>, <<-1, -2, 3>>, <<-1, 2, -3>>, <<1, -2, -3>>>>
Shapes == {Iso, Rect, Tetra}

\* rotations and reflections that carry the source onto the target
Mirror == <<<<1, 0, 0>>, <<0, 1, 0>>, <<0, 0, -1>>>>
Swap == <<<<0, 1, 0>>, <<1, 0, 0>>, <<0, 0, 1>>>>
Rx180 == <<<<1, 0, 0>>, <<0, -1, 0>>, <<0, 0, -1>>>>
Inversion == <<<<-1, 0, 0>>, <<0, -1, 0>>, <<0, 0, -1>>>>
Congruences == {Identity3, Rz90, Rx180, Mirror, Swap, Inversion}

\* the source carried by G, doubled and shifted
Carried(G, pts) ==
    Tuple([k \in 1..Len(pts) |-> VAdd(VScale(2, MatVec(G, pts[k])), <<1, 0, 0>>)])

\* rotation vectors on the coordinate axes, up to a half turn, and the zero vector
AxisRotVecs ==
    {<<0, 0, 0>>} \cup
    { VScale(k, e) : k \in {-2, -1, 1, 2},
                     e \in {<<1, 0, 0>>, <<0, 1, 0>>, <<0, 0, 1>>} }

\* point arrays with denominator 1 and 2
PointArrays == { Own(pts, d) : pts \in Shapes \cup {Tri}, d \in {1, 2} }

RotatePtsCall ==
    /\ pc = "idle"
    /\ \E pts \in Shapes, G \in Congruences :
         LET source == Own(pts, 1)
             target == Own(Carried(G, pts), 1)
         IN \E svd \in SVDs(CrossCovariance(source, target)) :
              /\ arg' = <<source, target, svd>>
              /\ ret' = rotate_pts(source, target, svd)
    /\ pc' = "rotated"
    /\ UNCHANGED <<dataset, dataset_in, inlier_th, niter, joint_type, i,
                   best_model, best_score, best_inliers, cur_model, cur_score,
                   cur_inliers, est_args, n_ver, top_score>>

RotvecCall ==
    /\ pc = "idle"
    /\ \E points \in PointArrays, rot_vecs \in AxisRotVecs :
         /\ arg' = <<points, rot_vecs>>
         /\ ret' = rotate_points_with_rotvec(points, rot_vecs)
    /\ pc' = "turned"
    /\ UNCHANGED <<dataset, dataset_in, inlier_th, niter, joint_type, i,
                   best_model, best_score, best_inliers, cur_model, cur_score,
                   cur_inliers, est_args, n_ver, top_score>>

NextGeometry == RotatePtsCall \/ RotvecCall \/ Return

SpecGeometry == Init /\ [][NextGeometry]_vars

----------------------------------------------------------------------------
(* Properties *)

\* joint types for which the estimator selects an objective (lines 136, 139)
ValidJointTypes == {"revolute", "prismatic"}

\* C1: every iteration of ransac replaces the retained best model and best
\* inlier mask exactly when its score is strictly greater than the score of
\* every earlier iteration, and then records that score as the best score;
\* otherwise model, mask and best score stay as they were.  The retained pair
\* is thus that of the earliest iteration with the greatest score so far.
C1_KeepsEarliestGreatest ==
    [][(pc = "loop" /\ pc' = "loop" /\ i' = i + 1) =>
          IF ScoreGreater(cur_score', top_score)
          THEN /\ best_model' = cur_model'
               /\ best_inliers' = cur_inliers'
               /\ best_score' = cur_score'
          ELSE UNCHANGED <<best_model, best_inliers, best_score>>]_vars

\* C2: the score joint_transformation_verifier returns lies in [0, 1], for
\* every dataset, model and threshold.
C2_ScoreInUnitInterval ==
    pc = "verified" => 0 <= ret[1][1] /\ ret[1][1] <= ret[1][2]

\* C3: joint_transformation_verifier returns the score 1 when the model
\* reproduces every correspondence of both bodies exactly and the threshold is
\* positive, and the score 0 when every residual distance of both bodies is at
\* least the threshold.
C3_ExactIsOneOutsideIsZero ==
    pc = "verified" =>
       LET model == arg[1]
           th == arg[2]
           res0 == Residual(TView(Field(dataset_in, "target0")),
                            TView(Field(dataset_in, "source0")),
                            model.scale0, model.rotation0, model.translation0)
           res1 == Residual(TView(Field(dataset_in, "target1")),
                            TView(Field(dataset_in, "source1")),
                            model.scale1, model.rotation1, model.translation1)
           ss0 == ColumnSumSq(res0)
           ss1 == ColumnSumSq(res1)
           exact == /\ \A j \in 1..Len(ss0) : ss0[j] = 0
                    /\ \A j \in 1..Len(ss1) : ss1[j] = 0
           outside == /\ \A j \in 1..Len(ss0) : ss0[j] >= th * th * res0.d * res0.d
                      /\ \A j \in 1..Len(ss1) : ss1[j] >= th * th * res1.d * res1.d
           score == ret[1]
       IN /\ (th > 0 /\ exact) => score[1] = score[2]
          /\ outside => score[1] = 0

C5_TwoPhase ==
    /\ \A k \in 1..Len(est_args) :
          est_args[k] # None =>
             /\ k = niter + 1
             /\ pc \in {"done", "raised"}
             /\ est_args[k] = best_inliers
    /\ pc = "done" =>
          /\ Len(est_args) = niter + 1
          /\ est_args[niter + 1] = best_inliers
          /\ ret[2] = best_inliers
          /\ best_model = Some(ret[1])
          /\ \E e \in Estimator(dataset, best_inliers, joint_type) :
                e.model = Some(ret[1])

\* a ransac call of two iterations or more that has returned the refit on a mask
C5_Witness ==
    /\ pc = "done" /\ niter >= 2
    /\ est_args[niter + 1] # None
    /\ ret[2] = est_args[niter + 1]

\* C6: on every dataset with at least 3 correspondences per body ransac returns
\* a model and a mask and signals no error, also when the retained mask is all
\* false or selects fewer than 2 points.
C6_RefitNeverFails ==
    pc = "raised" => joint_type \notin ValidJointTypes

\* C7: the scale scale_pts recovers is strictly positive for each body, for
\* every sample the estimator fits, random draws included.
C7_ScalePositive ==
    /\ pc = "estimated" => ret.scale0[1] > 0 /\ ret.scale1[1] > 0
    /\ cur_model # None =>
          cur_model[1].scale0[1] > 0 /\ cur_model[1].scale1[1] > 0
    /\ pc = "done" => ret[1].scale0[1] > 0 /\ ret[1].scale1[1] > 0

\* C8: whatever calls of ransac, of the estimator and of the verifier have been
\* made, the arrays of the dataset hold the values they held when supplied.
C8_DatasetReadOnly ==
    /\ dataset.source0 = dataset_in.source0
    /\ dataset.target0 = dataset_in.target0
    /\ dataset.source1 = dataset_in.source1
    /\ dataset.target1 = dataset_in.target1
    /\ dataset.joint_direction = dataset_in.joint_direction

\* a ransac call with estimator and verifier calls has returned
C8_Witness ==
    pc = "done" /\ niter >= 1 /\ n_ver >= 1 /\ Len(est_args) >= 2 /\ dataset = dataset_in

\* C9: rotate_pts returns a proper rotation (orthonormal, determinant +1); when
\* the product of the SVD factors is a reflection, the result is the product
\* taken with the last column of U negated.
C9_ProperRotation ==
    pc = "rotated" =>
       LET U == arg[3][1]
           Vh == arg[3][3]
           R == ret
           W == MatMul(R, Transpose(Vh))
       IN /\ MatMul(R, Transpose(R)) = Identity3
          /\ Det3(R) = 1
          /\ Det3(U) * Det3(Vh) < 0 =>
                \A r \in 1..3 : W[r] = <<U[r][1], U[r][2], -U[r][3]>>

\* rotate_pts has returned on factors whose product is a reflection
C9_Witness ==
    /\ pc = "rotated"
    /\ Det3(MatMul(arg[3][1], arg[3][3])) = -1
    /\ Det3(ret) = 1

\* C10: rotate_points_with_rotvec with the zero rotation vector returns every
\* point unchanged, and no NaN.
C10_ZeroRotvecIsIdentity ==
    (pc = "turned" /\ arg[2] = <<0, 0, 0>>) =>
       LET points == arg[1]
       IN /\ ret.d # 0
          /\ Len(ret.v) = Len(points.v)
          /\ \A k \in 1..Len(points.v) :
                VScale(points.d, ret.v[k]) = VScale(ret.d, points.v[k])

\* the zero rotation vector applied to points given in halves
C10_Witness ==
    /\ pc = "turned" /\ arg[2] = <<0, 0, 0>>
    /\ arg[1].d = 2 /\ ret.d # 0

\* C11: called without an inlier set, the estimator fits each body on exactly
\* 3 correspondences with indices in 0..nsource-1, all three different; called
\* with an inlier set, it fits each body on exactly the rows the set selects.
C11_MinimalSampleOfDistinct ==
    pc \in {"estimated", "est_raised"} =>
       LET inliers == arg[1]
           sample == arg[3]
           distinct(idx, n) ==
              /\ Len(idx) = 3
              /\ \A k \in 1..3 : idx[k] \in 0..(n - 1)
              /\ Cardinality({idx[k] : k \in 1..3}) = 3
       IN IF inliers = None
          THEN /\ distinct(sample[1], dataset.nsource0)
               /\ distinct(sample[2], dataset.nsource1)
          ELSE /\ sample[1] = MaskIndices(inliers[1])
               /\ sample[2] = MaskIndices(inliers[2])

\* C12: the candidate of an iteration of ransac depends only on the dataset,
\* the joint type, the threshold and the iteration's sample, not on the best
\* state or on earlier iterations; so the result the loop retains has the
\* score a take-the-max reduction over the iterations, in any order, ends with:
\* the greatest score of the iterations.
C12_LoopEqualsMaxReduction ==
    (pc = "loop" /\ i >= 1) =>
       /\ \E o \in LoopBody(dataset_in, None, joint_type, inlier_th) :
             /\ o.model = cur_model
             /\ o.score = cur_score
             /\ o.inliers = cur_inliers
       /\ best_model # None
       /\ joint_transformation_verifier(dataset, best_model[1], inlier_th).score
             = top_score

\* C13: the mask ransac returns is the mask the verifier produced for a
\* candidate model of the loop, unchanged by the final refit and not verified
\* against the refit model (no verifier call follows the loop); with niter = 0
\* ransac returns a model fitted on a random sample of 3 rows and no mask.
C13_MaskOfLoopCandidate ==
    pc = "done" =>
       /\ n_ver = niter
       /\ IF niter = 0
          THEN /\ ret[2] = None
               /\ est_args = <<None>>
               /\ \E e \in Estimator(dataset, None, joint_type) :
                     /\ e.model = Some(ret[1])
                     /\ Len(e.sample[1]) = 3 /\ Len(e.sample[2]) = 3
          ELSE /\ cur_model # None
               /\ ret[2] = joint_transformation_verifier(
                              dataset, cur_model[1], inlier_th).inliers
               /\ ret[2] = best_inliers

\* ransac has returned a mask that the verifier does not produce for the
\* model returned with it
C13_Witness ==
    /\ pc = "done" /\ niter >= 1
    /\ joint_transformation_verifier(dataset, ret[1], inlier_th).inliers # ret[2]
    /\ ret[2] = cur_inliers

\* C14: the estimator refines with objective_eval for 'revolute' (residuals
\* of both bodies and of the joint points, 3 * (n0 + n1 + min(n0, n1)) entries)
\* and with objective_eval_r for 'prismatic' (residuals of both bodies and the
\* difference of the rotation vectors, 3 * (n0 + n1 + 1) entries), which shows
\* in the samples the solver accepts; for any other joint type the call ends
\* in an error and returns no model, and ransac ends with that error in its
\* first estimator call, before any verifier call.
C14_ObjectiveByJointType ==
    /\ pc \in {"estimated", "est_raised"} =>
          LET jt == arg[2]
              n0 == Len(arg[3][1])
              n1 == Len(arg[3][2])
              entries == IF jt = "revolute" THEN 3 * (n0 + n1 + Min(n0, n1))
                         ELSE 3 * (n0 + n1 + 1)
          IN IF jt \in ValidJointTypes
             THEN (pc = "est_raised") <=> (entries < NParams)
             ELSE pc = "est_raised" /\ ret = "UnboundLocalError"
    /\ (pc \in {"loop", "done", "raised"} /\ joint_type \notin ValidJointTypes) =>
          /\ pc # "done"
          /\ i = 0 /\ n_ver = 0
          /\ pc = "raised" => ret = "UnboundLocalError" /\ Len(est_args) = 1

\* ransac with an unknown joint type and iterations to run has ended with the
\* estimator's error
C14_Witness ==
    /\ pc = "raised" /\ joint_type \notin ValidJointTypes /\ niter >= 1
    /\ ret = "UnboundLocalError" /\ i = 0

====
